---- MODULE Spec2Model ----
(***************************************************************************)
(* A model of the RID qualifier's injection side                           *)
(* (monitoring/rid_qualifier/aircraft_state_replayer.py: TestBuilder and   *)
(* TestHarness) and of its observation side                                *)
(* (monitoring/uss_qualifier/rid/display_data_evaluator.py:                *)
(* RIDSystemObserver and RIDObservationEvaluator).                         *)
(*                                                                         *)
(* Three specifications share the module:                                  *)
(*   SpecBuild  build_test_payloads and submit_payloads                    *)
(*   SpecEval   evaluate_system, its observations and their findings       *)
(*   SpecRect   one call of _get_query_rect, statement by statement        *)
(*                                                                         *)
(* Python objects that are shared by reference are modelled by reference:  *)
(* the list `requested_flights` of build_test_payloads is one heap object  *)
(* (an entry of `lists`) that every TestPayload of the call points to, and *)
(* a TestFlight's telemetry is the `states` list of the loaded record it   *)
(* was built from (an index into disk_rid_state_data).                     *)
(*                                                                         *)
(* Times are integers.  arrow.get(x.isoformat()) denotes the same instant  *)
(* as x (isoformat keeps microseconds and the UTC offset), so a timestamp  *)
(* string is modelled by the instant it denotes.                           *)
(***************************************************************************)
EXTENDS Integers, Sequences, FiniteSets, TLC

VARIABLES
    \* ---- TestBuilder / TestHarness ----
    test_configuration,   \* [usses, now, test_start_time]
    disk_rid_state_data,  \* TestBuilder.disk_rid_state_data: one record per USS
    lists,                \* heap of `requested_flights` list objects
    all_test_payloads,    \* the list build_test_payloads is filling
    returned,             \* the lists returned by the calls made so far
    state_data_index,     \* loop position of build_test_payloads
    uuid_counter,         \* number of uuid4() values drawn so far
    bpc,                  \* position of the driver of builder and harness
    submit_index,         \* loop position of submit_payloads
    puts,                 \* the PUT exchanges made by submit_test, in order
    uss_tests,            \* test ids the USSes created (answered 200)
    \* ---- RIDObservationEvaluator.evaluate_system ----
    clock,                \* the wall clock (arrow.utcnow())
    config,               \* EvaluationConfiguration
    rid_version,          \* RIDVersion
    injected_flights,     \* RIDObservationEvaluator._injected_flights
    epc,                  \* position of evaluate_system
    t_end,                \* local t_end
    t_next,               \* local t_next
    t_next_initial,       \* the value line 197 gave t_next
    query_counter,        \* local query_counter
    last_rect,            \* local last_rect: <<>> is None, else <<rect>>
    rect,                 \* local rect: <<>> before the first poll, else <<rect>>
    rect_calls,           \* number of calls of _get_query_rect so far
    observer_index,       \* loop position of _evaluate_system_instantaneously
    initiated_at,         \* observe_system: initiated_at of the request in flight
    observation,          \* latest result of observe_system: <<>> is None
    query,                \* latest Query of observe_system: <<>> before the first
    emitted,              \* calls made on the Findings sink for the observation at hand
    \* ---- RIDObservationEvaluator._get_query_rect, statement by statement ----
    t_now,                \* local t_now of evaluate_system, the argument t of the call
    corners,              \* locals lat_min, lng_min, lat_max, lng_max
    rpc                   \* position of _get_query_rect

bvars == <<test_configuration, disk_rid_state_data, lists, all_test_payloads,
           returned, state_data_index, uuid_counter, bpc, submit_index, puts,
           uss_tests>>

evars == <<clock, config, rid_version, injected_flights, epc, t_end, t_next,
           t_next_initial, query_counter, last_rect, rect, rect_calls,
           observer_index, initiated_at, observation, query,
           emitted>>

rvars == <<t_now, corners, rpc>>

vars == <<bvars, evars, rvars>>

----------------------------------------------------------------------------
(* Bounds *)
MaxUss == 3
MaxBuilds == 2

(* The track files of test_definitions/<locale>/aircraft_states, in        *)
(* discovery order.  Times in minutes.                                     *)
TrackFiles ==
    << [reference_time |-> 10, id |-> "flightA", states |-> <<10, 11, 13>>],
       [reference_time |-> 20, id |-> "flightB", states |-> <<21, 24>>] >>

TestNows == {100}
TestStartTimes == {100, 103}

(* The status codes a USS may answer a PUT with. *)
Statuses == {200, 409, 404, 401, 403, 413, 500}

SeqsOf(S, n) == UNION {[1..k -> S] : k \in 1..n}

----------------------------------------------------------------------------
(* TestBuilder.__init__: one parsed FullFlightRecord per USS, each a fresh *)
(* object read from the file of the USS's allocated track.                 *)
TestBuilderInit(cfg) ==
    [k \in 1..Len(cfg.usses) |-> TrackFiles[cfg.usses[k].allocated_flight_track_number]]

(* An identifier generator that hands out one and the same value. *)
uuid4_Mutant(counter) == 1

(* uuid.uuid4(): a value never drawn before. *)
uuid4(counter) == counter + 1

(* '/tests/{test_id}'.format(test_id=test_id) *)
InjectionPath(test_id) == <<"/tests/", test_id>>

(* A shift that leaves the time where it is. *)
ShiftOneMinute_Mutant(t) == t

(* test_start_time.shift(minutes=1) *)
ShiftOneMinute(t) == t + 1

(* The telemetry a TestFlight refers to: the states list of a loaded record. *)
Telemetry(flight) == disk_rid_state_data[flight.telemetry].states

(* The flights a TestPayload refers to: the contents of its list object. *)
RequestedFlights(test_payload) == lists[test_payload.requested_flights]

(* _get_query_rect is not followed statement by statement. *)
QueryRectNotFollowed ==
    /\ t_now = 0
    /\ corners = <<>>
    /\ rpc = "none"

(* SpecBuild constructs no RIDObservationEvaluator. *)
EvaluatorNotConstructed ==
    /\ clock = 0
    /\ config = <<>>
    /\ rid_version = <<>>
    /\ injected_flights = <<>>
    /\ epc = "none"
    /\ t_end = 0
    /\ t_next = 0
    /\ t_next_initial = 0
    /\ query_counter = 0
    /\ last_rect = <<>>
    /\ rect = <<>>
    /\ rect_calls = 0
    /\ observer_index = 0
    /\ initiated_at = 0
    /\ observation = <<>>
    /\ query = <<>>
    /\ emitted = <<>>

BuildInit ==
    /\ test_configuration \in
         { [usses |-> u, now |-> n, test_start_time |-> s] :
             u \in SeqsOf([allocated_flight_track_number : 1..Len(TrackFiles)], MaxUss),
             n \in TestNows, s \in TestStartTimes }
    /\ disk_rid_state_data = TestBuilderInit(test_configuration)
    /\ lists = <<>>
    /\ all_test_payloads = <<>>
    /\ returned = <<>>
    /\ state_data_index = 0
    /\ uuid_counter = 0
    /\ bpc = "idle"
    /\ submit_index = 0
    /\ puts = <<>>
    /\ uss_tests = {}
    /\ EvaluatorNotConstructed
    /\ QueryRectNotFollowed

(* build_test_payloads, lines 54-63: a new all_test_payloads and a new     *)
(* requested_flights list, both empty.                                     *)
BuildStart ==
    /\ bpc \in {"idle", "built", "submitted", "failed"}
    /\ Len(returned) < MaxBuilds
    /\ lists' = Append(lists, <<>>)
    /\ all_test_payloads' = <<>>
    /\ state_data_index' = 1
    /\ bpc' = "building"
    /\ UNCHANGED <<evars, rvars>>
    /\ UNCHANGED <<test_configuration, disk_rid_state_data, returned,
                   uuid_counter, submit_index, puts, uss_tests>>

(* One iteration of the loop of build_test_payloads, lines 64-97. *)
BuildStep ==
    /\ bpc = "building"
    /\ state_data_index <= Len(disk_rid_state_data)
    /\ LET k == state_data_index
           current == disk_rid_state_data[k]
           test_id == uuid4(uuid_counter)
           test_reference_time == test_configuration.now
           test_start_offset == ShiftOneMinute(test_configuration.test_start_time)
           timestamp_offset == test_start_offset - current.reference_time
           rewritten ==
               [current EXCEPT
                  !.reference_time = test_reference_time,
                  !.states = [j \in 1..Len(current.states) |->
                                 current.states[j] + timestamp_offset]]
           test_flight ==
               [injection_id |-> uuid4(test_id),
                telemetry |-> k,
                details_responses |->
                    << [effective_after |-> test_start_offset,
                        details |-> [id |-> current.id]] >>]
           list_id == Len(lists)
           test_payload == [test_id |-> test_id, requested_flights |-> list_id]
       IN  /\ disk_rid_state_data' = [disk_rid_state_data EXCEPT ![k] = rewritten]
           /\ lists' = [lists EXCEPT ![list_id] = Append(@, test_flight)]
           /\ all_test_payloads' =
                  Append(all_test_payloads,
                         [injection_path |-> InjectionPath(test_id),
                          injection_payload |-> test_payload])
           /\ uuid_counter' = uuid4(test_id)
           /\ state_data_index' = k + 1
    /\ UNCHANGED <<evars, rvars>>
    /\ UNCHANGED <<test_configuration, returned, bpc, submit_index, puts, uss_tests>>

(* build_test_payloads, line 99. *)
BuildReturn ==
    /\ bpc = "building"
    /\ state_data_index > Len(disk_rid_state_data)
    /\ returned' = Append(returned, all_test_payloads)
    /\ bpc' = "built"
    /\ UNCHANGED <<evars, rvars>>
    /\ UNCHANGED <<test_configuration, disk_rid_state_data, lists,
                   all_test_payloads, state_data_index, uuid_counter,
                   submit_index, puts, uss_tests>>

(* The list submit_payloads was called with: the latest returned one. *)
Submitted == returned[Len(returned)]

(* The request body of submit_test, line 114, as serialised on the wire. *)
CreateTestParameters(payload) ==
    [requested_flights |->
        [j \in 1..Len(RequestedFlights(payload.injection_payload)) |->
            LET f == RequestedFlights(payload.injection_payload)[j]
            IN  [injection_id |-> f.injection_id,
                 telemetry |-> Telemetry(f),
                 details_responses |-> f.details_responses]]]

(* A submit_test that takes 409 (the test exists already) for success. *)
SubmitTestRaises_Mutant(status_code) == status_code \notin {200, 409}

(* submit_test, lines 118-137: every status but 200 raises RuntimeError. *)
SubmitTestRaises(status_code) == status_code # 200

(* submit_payloads, line 143: the loop starts. *)
SubmitStart ==
    /\ bpc = "built"
    /\ bpc' = "submitting"
    /\ submit_index' = 1
    /\ puts' = <<>>
    /\ UNCHANGED <<evars, rvars>>
    /\ UNCHANGED <<test_configuration, disk_rid_state_data, lists,
                   all_test_payloads, returned, state_data_index,
                   uuid_counter, uss_tests>>

(* submit_test for the payload at submit_index, lines 110-137.  The USS    *)
(* chooses the status; it has created the test exactly when it answers 200.*)
SubmitTest ==
    /\ bpc = "submitting"
    /\ submit_index <= Len(Submitted)
    /\ \E status_code \in Statuses :
         LET payload == Submitted[submit_index]
             test_id == payload.injection_payload.test_id
         IN  /\ puts' = Append(puts, [url |-> payload.injection_path,
                                       json |-> CreateTestParameters(payload),
                                       status_code |-> status_code])
             /\ uss_tests' = IF status_code = 200
                             THEN uss_tests \cup {test_id} ELSE uss_tests
             /\ IF SubmitTestRaises(status_code)
                THEN bpc' = "failed" /\ submit_index' = submit_index
                ELSE bpc' = bpc /\ submit_index' = submit_index + 1
    /\ UNCHANGED <<evars, rvars>>
    /\ UNCHANGED <<test_configuration, disk_rid_state_data, lists,
                   all_test_payloads, returned, state_data_index, uuid_counter>>

(* submit_payloads returns after the last payload. *)
SubmitReturn ==
    /\ bpc = "submitting"
    /\ submit_index > Len(Submitted)
    /\ bpc' = "submitted"
    /\ UNCHANGED <<evars, rvars>>
    /\ UNCHANGED <<test_configuration, disk_rid_state_data, lists,
                   all_test_payloads, returned, state_data_index,
                   uuid_counter, submit_index, puts, uss_tests>>

BuildNext ==
    \/ BuildStart
    \/ BuildStep
    \/ BuildReturn
    \/ SubmitStart
    \/ SubmitTest
    \/ SubmitReturn

----------------------------------------------------------------------------
(* Claims about TestBuilder and TestHarness *)

(* C1: every TestPayload returned by build_test_payloads carries exactly   *)
(* one TestFlight, the one built from its own USS's record, and no flight  *)
(* built for another USS.                                                  *)
C1_OneFlightPerPayload ==
    bpc = "built" =>
        \A k \in 1..Len(Submitted) :
            LET flights == RequestedFlights(Submitted[k].injection_payload)
            IN  /\ Len(flights) = 1
                /\ flights[1].telemetry = k

(* C5: submit_payloads PUTs the payloads one at a time in list order,     *)
(* stops at the first status that is not 200 (whatever it is), submits     *)
(* nothing after it, and returns normally only if every payload got 200.   *)
C5_StopAtFirstFailure ==
    bpc \in {"submitting", "submitted", "failed"} =>
        /\ Len(puts) <= Len(Submitted)
        /\ \A i \in 1..Len(puts) : puts[i].url = Submitted[i].injection_path
        /\ \A i \in 1..(Len(puts) - 1) : puts[i].status_code = 200
        /\ bpc = "submitting" =>
              /\ submit_index = Len(puts) + 1
              /\ \A i \in 1..Len(puts) : puts[i].status_code = 200
        /\ bpc = "failed" =>
              /\ Len(puts) >= 1
              /\ puts[Len(puts)].status_code # 200
        /\ bpc = "submitted" =>
              /\ Len(puts) = Len(Submitted)
              /\ \A i \in 1..Len(puts) : puts[i].status_code = 200

C5_Witness ==
    /\ bpc = "failed"
    /\ Len(Submitted) = 3
    /\ Len(puts) = 2
    /\ puts[1].status_code = 200
    /\ puts[2].status_code = 409

(* C6 as stated: when the submission phase fails, no payload of that run   *)
(* was accepted with status 200.                                           *)
C6_NoPartialInjection ==
    bpc = "failed" => \A i \in 1..Len(puts) : puts[i].status_code # 200

(* C6 as amended: when the submission phase fails at payload k, the USSes  *)
(* have created exactly the tests of the payloads before k (nothing is     *)
(* rolled back) and none of payload k or later.                            *)
C6_InjectedExactlyBeforeFailure ==
    bpc = "failed" =>
        \A i \in 1..Len(Submitted) :
            (Submitted[i].injection_payload.test_id \in uss_tests)
                <=> (i < Len(puts))

C6_Witness ==
    /\ bpc = "failed"
    /\ Len(Submitted) = 3
    /\ Len(puts) = 2
    /\ Submitted[1].injection_payload.test_id \in uss_tests
    /\ Submitted[2].injection_payload.test_id \notin uss_tests

SpecBuild == BuildInit /\ [][BuildNext]_vars

----------------------------------------------------------------------------
(* RIDObservationEvaluator                                                 *)
(*                                                                         *)
(* Times are whole seconds.  Positions are whole multiples of 1e-6 degree  *)
(* near (0, 0), where the great-circle distance between the corners of a   *)
(* small rectangle is the Euclidean length of its diagonal; distances are  *)
(* carried as arcs in units of 1e-6 degree and converted with              *)
(* EARTH_CIRCUMFERENCE_KM as the code does.  Values the code computes in   *)
(* floating point are rounded to the grid: outward for the bounds of an    *)
(* expanded rectangle, down for a mean and for a square root.              *)

(* Bounds *)
MaxTime == 7

(* The wall-clock times at which evaluate_system may be called. *)
StartTimes == {0, 4}

(* The observers passed to evaluate_system, in configuration order. *)
Observers == <<"dp1", "dp2">>

(* monitorlib.geo.EARTH_CIRCUMFERENCE_KM *)
EARTH_CIRCUMFERENCE_KM == 40075

(* 1e-5 degree, the padding of lines 140-143, in grid units. *)
PadUnits == 10

Min(a, b) == IF a <= b THEN a ELSE b
Max(a, b) == IF a >= b THEN a ELSE b
FloorDiv(a, b) == a \div b
CeilDiv(a, b) == -((-a) \div b)

SeqMin(q) == CHOOSE x \in {q[j] : j \in DOMAIN q} : \A j \in DOMAIN q : x <= q[j]
SeqMax(q) == CHOOSE x \in {q[j] : j \in DOMAIN q} : \A j \in DOMAIN q : x >= q[j]

RECURSIVE SeqSum(_)
SeqSum(q) == IF q = <<>> THEN 0 ELSE q[1] + SeqSum(Tail(q))

RECURSIVE Concat(_)
Concat(qs) == IF qs = <<>> THEN <<>> ELSE qs[1] \o Concat(Tail(qs))

RECURSIVE SelectSeqOf(_, _)
SelectSeqOf(q, id) ==
    IF q = <<>> THEN <<>>
    ELSE IF q[1].id = id THEN <<q[1]>> \o SelectSeqOf(Tail(q), id)
         ELSE SelectSeqOf(Tail(q), id)

(* The integer square root, by bisection of lo..hi. *)
RECURSIVE ISqrtIn(_, _, _)
ISqrtIn(n, lo, hi) ==
    IF lo = hi THEN lo
    ELSE LET mid == (lo + hi + 1) \div 2
         IN  IF mid * mid <= n THEN ISqrtIn(n, mid, hi) ELSE ISqrtIn(n, lo, mid - 1)

ISqrt(n) == ISqrtIn(n, 0, Min(n, 40000))

(* c1.get_distance(c2): the arc between two corners, in grid units. *)
GetDistance(lat1, lng1, lat2, lng2) ==
    ISqrt((lat2 - lat1) * (lat2 - lat1) + (lng2 - lng1) * (lng2 - lng1))

(* The telemetry of all injected flights, in sweep order. *)
AllTelemetry(flights) ==
    Concat([i \in 1..Len(flights) |-> flights[i].flight.telemetry])

(* A comparison that takes the minimum for kilometres. *)
DiagonalAtLeast_Mutant(arc, metres) ==
    arc * EARTH_CIRCUMFERENCE_KM >= metres * 360

(* arc.degrees * EARTH_CIRCUMFERENCE_KM * 1000 / 360 >= metres (line 137), *)
(* for an arc in grid units: arc.degrees = arc / 1e6, hence                *)
(* arc * EARTH_CIRCUMFERENCE_KM >= metres * 360 * 1000.                    *)
DiagonalAtLeast(arc, metres) ==
    arc * EARTH_CIRCUMFERENCE_KM >= metres * 360000

(* arc.degrees * EARTH_CIRCUMFERENCE_KM / 360 > km, with the threshold     *)
(* given in metres (lines 254-259).                                        *)
DiagonalKmExceeds(arc, threshold_metres) ==
    arc * EARTH_CIRCUMFERENCE_KM > threshold_metres * 360000

(* (span * min_query_diagonal / diagonal * OVERSHOOT), lines 146-151 and   *)
(* 155-160, with OVERSHOOT = 1.01 and diagonal = arc * 40075 / 360000:     *)
(* span * m * 360000 * 101 over arc * 40075 * 100, reduced by 2500 and     *)
(* rounded up.                                                             *)
ScaledSpan(span, min_query_diagonal, arc) ==
    CeilDiv(span * min_query_diagonal * 14544, arc * 1603)

(* The expansion loop of _get_query_rect, lines 129-166. *)
RECURSIVE Expand(_, _, _, _, _)
Expand(lat_min, lng_min, lat_max, lng_max, min_query_diagonal) ==
    LET arc == GetDistance(lat_min, lng_min, lat_max, lng_max)
    IN  IF DiagonalAtLeast(arc, min_query_diagonal)
        THEN [lat_lo |-> lat_min, lng_lo |-> lng_min,
              lat_hi |-> lat_max, lng_hi |-> lng_max]
        ELSE IF lat_min = lat_max /\ lng_min = lng_max
        THEN Expand(lat_min - PadUnits, lng_min - PadUnits,
                    lat_max + PadUnits, lng_max + PadUnits, min_query_diagonal)
        ELSE LET lat_span == ScaledSpan(lat_max - lat_min, min_query_diagonal, arc)
                 lng_span == ScaledSpan(lng_max - lng_min, min_query_diagonal, arc)
             IN  Expand(FloorDiv(lat_min + lat_max - lat_span, 2),
                        FloorDiv(lng_min + lng_max - lng_span, 2),
                        CeilDiv(lat_min + lat_max + lat_span, 2),
                        CeilDiv(lng_min + lng_max + lng_span, 2),
                        min_query_diagonal)

(* A window that forgets the propagation latency. *)
GetQueryRect_Mutant(t, flights, cfg, version) ==
    LET t_min == t - version.realtime_period
        t_max == t
        all == AllTelemetry(flights)
        relevant == {j \in 1..Len(all) :
                        t_min <= all[j].timestamp /\ all[j].timestamp <= t_max}
        n == Len(all)
    IN  IF relevant # {}
        THEN Expand(CHOOSE x \in {all[j].position.lat : j \in relevant} :
                        \A j \in relevant : x <= all[j].position.lat,
                    CHOOSE x \in {all[j].position.lng : j \in relevant} :
                        \A j \in relevant : x <= all[j].position.lng,
                    CHOOSE x \in {all[j].position.lat : j \in relevant} :
                        \A j \in relevant : x >= all[j].position.lat,
                    CHOOSE x \in {all[j].position.lng : j \in relevant} :
                        \A j \in relevant : x >= all[j].position.lng,
                    cfg.min_query_diagonal)
        ELSE LET lat == FloorDiv(SeqSum([j \in 1..n |-> all[j].position.lat]), n)
                 lng == FloorDiv(SeqSum([j \in 1..n |-> all[j].position.lng]), n)
             IN  Expand(lat, lng, lat, lng, cfg.min_query_diagonal)

(* _get_query_rect(t), lines 89-166. *)
GetQueryRect(t, flights, cfg, version) ==
    LET t_min == t - version.realtime_period - cfg.max_propagation_latency
        t_max == t
        all == AllTelemetry(flights)
        relevant == {j \in 1..Len(all) :
                        t_min <= all[j].timestamp /\ all[j].timestamp <= t_max}
        n == Len(all)
    IN  IF relevant # {}
        THEN Expand(CHOOSE x \in {all[j].position.lat : j \in relevant} :
                        \A j \in relevant : x <= all[j].position.lat,
                    CHOOSE x \in {all[j].position.lng : j \in relevant} :
                        \A j \in relevant : x <= all[j].position.lng,
                    CHOOSE x \in {all[j].position.lat : j \in relevant} :
                        \A j \in relevant : x >= all[j].position.lat,
                    CHOOSE x \in {all[j].position.lng : j \in relevant} :
                        \A j \in relevant : x >= all[j].position.lng,
                    cfg.min_query_diagonal)
        ELSE LET lat == FloorDiv(SeqSum([j \in 1..n |-> all[j].position.lat]), n)
                 lng == FloorDiv(SeqSum([j \in 1..n |-> all[j].position.lng]), n)
             IN  Expand(lat, lng, lat, lng, cfg.min_query_diagonal)

(* The arc between the corners of a rectangle, as lines 254-256 take it. *)
RectArc(r) == GetDistance(r.lat_lo, r.lng_lo, r.lat_hi, r.lng_hi)

(* _evaluate_normal_observation, line 306. *)
StartsInFuture(t_response, t_min) == t_response < t_min

(* A lingering test that forgets the propagation latency. *)
TooFarInPast_Mutant(t_response, t_max, version, cfg) ==
    t_response > t_max + version.realtime_period

(* _evaluate_normal_observation, lines 318-323. *)
TooFarInPast(t_response, t_max, version, cfg) ==
    t_response > t_max + version.realtime_period + cfg.max_propagation_latency

(* A must-be-visible window that includes its lower end. *)
MustBeObserved_Mutant(t_initiated, t_min, t_max, version, cfg) ==
    /\ t_min + cfg.max_propagation_latency <= t_initiated
    /\ t_initiated < t_max + version.realtime_period

(* _evaluate_normal_observation, lines 335-339. *)
MustBeObserved(t_initiated, t_min, t_max, version, cfg) ==
    /\ t_min + cfg.max_propagation_latency < t_initiated
    /\ t_initiated < t_max + version.realtime_period

Finding(kind, observer_name, flight_id, uss_name, args) ==
    [kind |-> kind, observer |-> observer_name, flight_id |-> flight_id,
     uss |-> uss_name, args |-> args]

(* An if/elif chain that tries the must-be-visible window before the       *)
(* lingering test.                                                         *)
VisibilityFindings_Mutant(observer_name, expected_flight, matching_flights, r, q, version, cfg) ==
    LET t_initiated == q.request.timestamp
        t_response == q.response.reported
        timestamps == [j \in 1..Len(expected_flight.flight.telemetry) |->
                          expected_flight.flight.telemetry[j].timestamp]
        t_min == SeqMin(timestamps)
        t_max == SeqMax(timestamps)
        flight_id == expected_flight.flight.details_responses[1].details.id
        uss_name == expected_flight.uss.name
    IN  IF StartsInFuture(t_response, t_min)
        THEN IF matching_flights # <<>>
             THEN << Finding("premature_flight", observer_name, flight_id,
                             uss_name, <<t_min, t_response>>) >>
             ELSE <<>>
        ELSE IF MustBeObserved(t_initiated, t_min, t_max, version, cfg)
        THEN IF matching_flights = <<>>
             THEN << Finding("missing_flight", observer_name, flight_id,
                             uss_name, <<r>>) >>
             ELSE <<>>
        ELSE IF TooFarInPast(t_response, t_max, version, cfg)
        THEN IF matching_flights # <<>>
             THEN << Finding("lingering_flight", observer_name, flight_id,
                             uss_name, <<t_max, t_initiated>>) >>
             ELSE <<>>
        ELSE <<>>

(* _evaluate_normal_observation, lines 306-352: the if/elif chain for one  *)
(* expected flight.                                                        *)
VisibilityFindings(observer_name, expected_flight, matching_flights, r, q, version, cfg) ==
    LET t_initiated == q.request.timestamp
        t_response == q.response.reported
        timestamps == [j \in 1..Len(expected_flight.flight.telemetry) |->
                          expected_flight.flight.telemetry[j].timestamp]
        t_min == SeqMin(timestamps)
        t_max == SeqMax(timestamps)
        flight_id == expected_flight.flight.details_responses[1].details.id
        uss_name == expected_flight.uss.name
    IN  IF StartsInFuture(t_response, t_min)
        THEN IF matching_flights # <<>>
             THEN << Finding("premature_flight", observer_name, flight_id,
                             uss_name, <<t_min, t_response>>) >>
             ELSE <<>>
        ELSE IF TooFarInPast(t_response, t_max, version, cfg)
        THEN IF matching_flights # <<>>
             THEN << Finding("lingering_flight", observer_name, flight_id,
                             uss_name, <<t_max, t_initiated>>) >>
             ELSE <<>>
        ELSE IF MustBeObserved(t_initiated, t_min, t_max, version, cfg)
        THEN IF matching_flights = <<>>
             THEN << Finding("missing_flight", observer_name, flight_id,
                             uss_name, <<r>>) >>
             ELSE <<>>
        ELSE <<>>

(* A duplicate test that reports a single match as well. *)
FlightFindings_Mutant(observer_name, expected_flight, obs, r, q, version, cfg) ==
    LET flight_id == expected_flight.flight.details_responses[1].details.id
        matching_flights == SelectSeqOf(obs.flights, flight_id)
    IN  (IF Len(matching_flights) >= 1
         THEN << Finding("duplicate_flights", observer_name, flight_id,
                         expected_flight.uss.name, <<Len(matching_flights)>>) >>
         ELSE <<>>)
        \o VisibilityFindings(observer_name, expected_flight, matching_flights,
                              r, q, version, cfg)

(* _evaluate_normal_observation, lines 280-355: one expected flight. *)
FlightFindings(observer_name, expected_flight, obs, r, q, version, cfg) ==
    LET flight_id == expected_flight.flight.details_responses[1].details.id
        matching_flights == SelectSeqOf(obs.flights, flight_id)
    IN  (IF Len(matching_flights) > 1
         THEN << Finding("duplicate_flights", observer_name, flight_id,
                         expected_flight.uss.name, <<Len(matching_flights)>>) >>
         ELSE <<>>)
        \o VisibilityFindings(observer_name, expected_flight, matching_flights,
                              r, q, version, cfg)

(* _evaluate_normal_observation, lines 269-355.  obs is <<>> for None. *)
EvaluateNormalObservation(observer_name, r, obs, q, flights, version, cfg) ==
    IF obs = <<>>
    THEN << Finding("observation_failure", observer_name, "", "", <<r>>) >>
    ELSE Concat([i \in 1..Len(flights) |->
                    FlightFindings(observer_name, flights[i], obs[1], r, q,
                                   version, cfg)])

(* _evaluate_area_to_large_observation, lines 357-363. *)
EvaluateAreaTooLargeObservation(observer_name, diagonal, q) ==
    IF q.status_code # 413
    THEN << Finding("area_too_large_not_indicated", observer_name, "", "",
                    <<diagonal>>) >>
    ELSE <<>>

(* _evaluate_clusters_observation, lines 365-367. *)
EvaluateClustersObservation == <<>>

(* A routing that knows only the max_diagonal_km threshold. *)
Routing_Mutant(r, version) ==
    IF DiagonalKmExceeds(RectArc(r), version.max_diagonal_m) THEN "area_too_large"
    ELSE "normal"

(* The routing of _evaluate_observation, lines 254-267. *)
Routing(r, version) ==
    IF DiagonalKmExceeds(RectArc(r), version.max_diagonal_m) THEN "area_too_large"
    ELSE IF DiagonalKmExceeds(RectArc(r), version.max_details_diagonal_m) THEN "clusters"
    ELSE "normal"

(* _evaluate_observation, lines 247-267. *)
EvaluateObservation(observer_name, r, obs, q, flights, version, cfg) ==
    IF Routing(r, version) = "area_too_large"
    THEN EvaluateAreaTooLargeObservation(observer_name, RectArc(r), q)
    ELSE IF Routing(r, version) = "clusters"
    THEN EvaluateClustersObservation
    ELSE EvaluateNormalObservation(observer_name, r, obs, q, flights, version, cfg)

(* An observe_system that takes a body it cannot parse for an empty        *)
(* display.                                                                *)
ObserveSystemResult_Mutant(status_code, parses, flights) ==
    IF status_code = 200 THEN << [flights |-> flights] >> ELSE <<>>

(* observe_system, lines 40-48: the observation is the parsed body for a   *)
(* status of 200 whose body parses, and None otherwise.                    *)
ObserveSystemResult(status_code, parses, flights) ==
    IF status_code = 200 /\ parses THEN << [flights |-> flights] >> ELSE <<>>

----------------------------------------------------------------------------
(* Inputs of SpecEval *)

Sample(t, lat, lng) == [timestamp |-> t, position |-> [lat |-> lat, lng |-> lng]]

InjectedFlight(uss_name, flight_id, telemetry) ==
    [uss |-> [name |-> uss_name],
     flight |-> [telemetry |-> telemetry,
                 details_responses |-> << [details |-> [id |-> flight_id]] >>]]

FlightA == InjectedFlight("uss1", "flightA", << Sample(2, 0, 0), Sample(3, 300, 0) >>)
FlightB == InjectedFlight("uss2", "flightB", << Sample(1, 0, 40) >>)

InjectedFlightLists == { <<FlightA>>, <<FlightB>>, <<FlightA, FlightB>> }

Configurations ==
    [min_polling_interval : {2, 3},
     max_propagation_latency : {0, 1},
     min_query_diagonal : {5, 15},
     repeat_query_rect_period : {0, 1, 2}]

RIDVersions ==
    { [realtime_period |-> 2, max_diagonal_m |-> 20, max_details_diagonal_m |-> 10] }

(* What a Display Provider may answer: a status, and for 200 a body that   *)
(* parses or not and the flights it lists.                                 *)
ObserverStatuses == {200, 413, 500}

ObservedFlightLists ==
    { <<>>, << [id |-> "flightA"] >>, << [id |-> "flightB"] >>,
      << [id |-> "flightA"], [id |-> "flightA"] >>,
      << [id |-> "flightA"], [id |-> "flightB"] >> }

(* SpecEval constructs no TestBuilder. *)
BuilderNotConstructed ==
    /\ test_configuration = <<>>
    /\ disk_rid_state_data = <<>>
    /\ lists = <<>>
    /\ all_test_payloads = <<>>
    /\ returned = <<>>
    /\ state_data_index = 0
    /\ uuid_counter = 0
    /\ bpc = "none"
    /\ submit_index = 0
    /\ puts = <<>>
    /\ uss_tests = {}

(* RIDObservationEvaluator.__init__, lines 77-87; evaluate_system not yet  *)
(* called.                                                                 *)
EvalInit ==
    /\ BuilderNotConstructed
    /\ clock \in StartTimes
    /\ config \in Configurations
    /\ rid_version \in RIDVersions
    /\ injected_flights \in InjectedFlightLists
    /\ epc = "start"
    /\ t_end = 0
    /\ t_next = 0
    /\ t_next_initial = 0
    /\ query_counter = 0
    /\ last_rect = <<>>
    /\ rect = <<>>
    /\ rect_calls = 0
    /\ observer_index = 0
    /\ initiated_at = 0
    /\ observation = <<>>
    /\ query = <<>>
    /\ emitted = <<>>
    /\ QueryRectNotFollowed

(* Time passes while evaluate_system runs. *)
Tick ==
    /\ epc \notin {"start", "evaluated", "done", "expired", "none"}
    /\ clock < MaxTime
    /\ clock' = clock + 1
    /\ UNCHANGED <<bvars, rvars>>
    /\ UNCHANGED <<config, rid_version, injected_flights, epc, t_end, t_next,
                   t_next_initial, query_counter, last_rect, rect, rect_calls,
                   observer_index, initiated_at, observation,
                   query, emitted>>

(* evaluate_system, lines 176-185. *)
EndOfInjectedData(now, flights, version, cfg) ==
    LET all == AllTelemetry(flights)
    IN  Max(now, SeqMax([j \in 1..Len(all) |-> all[j].timestamp]))
          + version.realtime_period + cfg.max_propagation_latency

ComputeEnd ==
    /\ epc = "start"
    /\ t_end' = EndOfInjectedData(clock, injected_flights, rid_version, config)
    /\ epc' = "check"
    /\ UNCHANGED <<bvars, rvars>>
    /\ UNCHANGED <<clock, config, rid_version, injected_flights, t_next,
                   t_next_initial, query_counter, last_rect, rect, rect_calls,
                   observer_index, initiated_at, observation,
                   query, emitted>>

(* evaluate_system, lines 187-197: raise when the clock has passed t_end,  *)
(* else set up the loop.                                                   *)
CheckExpired ==
    /\ epc = "check"
    /\ IF clock > t_end
       THEN /\ epc' = "expired"
            /\ UNCHANGED <<query_counter, last_rect>>
       ELSE /\ epc' = "set_t_next"
            /\ query_counter' = 0
            /\ last_rect' = <<>>
    /\ UNCHANGED <<bvars, rvars>>
    /\ UNCHANGED <<clock, config, rid_version, injected_flights, t_end, t_next,
                   t_next_initial, rect, rect_calls, observer_index, initiated_at, observation, query, emitted>>

(* evaluate_system, line 197. *)
SetNext ==
    /\ epc = "set_t_next"
    /\ t_next' = clock
    /\ t_next_initial' = clock
    /\ epc' = "loop"
    /\ UNCHANGED <<bvars, rvars>>
    /\ UNCHANGED <<clock, config, rid_version, injected_flights, t_end,
                   query_counter, last_rect, rect, rect_calls, observer_index, initiated_at, observation, query, emitted>>

(* A loop test that still polls at t_end. *)
LoopCondition_Mutant(now, end) == now <= end

(* evaluate_system, line 199. *)
LoopCondition(now, end) == now < end

LoopTest ==
    /\ epc = "loop"
    /\ epc' = IF LoopCondition(clock, t_end) THEN "choose_rect" ELSE "done"
    /\ UNCHANGED <<bvars, rvars>>
    /\ UNCHANGED <<clock, config, rid_version, injected_flights, t_end, t_next,
                   t_next_initial, query_counter, last_rect, rect, rect_calls,
                   observer_index, initiated_at, observation, query, emitted>>

(* A reuse test that counts polls from one. *)
ReuseRect_Mutant(last, counter, cfg) ==
    /\ last # <<>>
    /\ cfg.repeat_query_rect_period > 0
    /\ (counter + 1) % cfg.repeat_query_rect_period = 0

(* evaluate_system, lines 203-207. *)
ReuseRect(last, counter, cfg) ==
    /\ last # <<>>
    /\ cfg.repeat_query_rect_period > 0
    /\ counter % cfg.repeat_query_rect_period = 0

(* evaluate_system, lines 202-213. *)
ChooseRect ==
    /\ epc = "choose_rect"
    /\ IF ReuseRect(last_rect, query_counter, config)
       THEN /\ rect' = last_rect
            /\ UNCHANGED <<last_rect, rect_calls>>
       ELSE /\ rect' = << GetQueryRect(clock, injected_flights, config, rid_version) >>
            /\ last_rect' = rect'
            /\ rect_calls' = rect_calls + 1
    /\ t_now' = clock
    /\ observer_index' = 1
    /\ epc' = "observe"
    /\ UNCHANGED <<bvars, corners, rpc>>
    /\ UNCHANGED <<clock, config, rid_version, injected_flights, t_end, t_next,
                   t_next_initial, query_counter, initiated_at,
                   observation, query, emitted>>

(* observe_system, lines 30-39: the request leaves. *)
ObserveRequest ==
    /\ epc = "observe"
    /\ observer_index <= Len(Observers)
    /\ initiated_at' = clock
    /\ epc' = "awaiting_response"
    /\ UNCHANGED <<bvars, rvars>>
    /\ UNCHANGED <<clock, config, rid_version, injected_flights, t_end, t_next,
                   t_next_initial, query_counter, last_rect, rect, rect_calls,
                   observer_index, observation, query, emitted>>

(* observe_system, lines 40-49, and the rest of the loop body of           *)
(* _evaluate_system_instantaneously, lines 236-242: the response arrives,  *)
(* its Query is registered and the observation is evaluated.  An exchange  *)
(* takes time: the clock has moved on when the response is described.      *)
ObserveResponse ==
    /\ epc = "awaiting_response"
    /\ clock > initiated_at
    /\ \E status_code \in ObserverStatuses, parses \in BOOLEAN,
          flights \in ObservedFlightLists :
         /\ (status_code # 200 \/ ~parses) => flights = <<>>
         /\ status_code # 200 => parses
         /\ LET name == Observers[observer_index]
                result == ObserveSystemResult(status_code, parses, flights)
                q == [observer |-> name,
                      request |-> [timestamp |-> initiated_at],
                      response |-> [reported |-> clock, parses |-> parses],
                      status_code |-> status_code]
            IN  /\ observation' = result
                /\ query' = <<q>>
                /\ emitted' =
                     << Finding("observation_query", name, "", "", <<q>>) >>
                     \o EvaluateObservation(name, rect[1], result, q,
                                            injected_flights, rid_version, config)
    /\ initiated_at' = 0
    /\ epc' = "evaluated"
    /\ UNCHANGED <<bvars, rvars>>
    /\ UNCHANGED <<clock, config, rid_version, injected_flights, t_end, t_next,
                   t_next_initial, query_counter, last_rect, rect, rect_calls,
                   observer_index>>

(* A loop over the observers that returns after the first one. *)
NextObserver_Mutant ==
    /\ epc = "evaluated"
    /\ observer_index' = observer_index + 1
    /\ epc' = "catch_up"
    /\ observation' = <<>>
    /\ query' = <<>>
    /\ emitted' = <<>>
    /\ UNCHANGED <<bvars, rvars>>
    /\ UNCHANGED <<clock, config, rid_version, injected_flights, t_end, t_next,
                   t_next_initial, query_counter, last_rect, rect, rect_calls,
                   initiated_at>>

(* _evaluate_system_instantaneously, line 233: the loop moves to the next  *)
(* observer, or the function returns after the last one; observation and   *)
(* query of the finished iteration are dead.                               *)
NextObserver ==
    /\ epc = "evaluated"
    /\ observer_index' = observer_index + 1
    /\ epc' = IF observer_index = Len(Observers) THEN "catch_up" ELSE "observe"
    /\ observation' = <<>>
    /\ query' = <<>>
    /\ emitted' = <<>>
    /\ UNCHANGED <<bvars, rvars>>
    /\ UNCHANGED <<clock, config, rid_version, injected_flights, t_end, t_next,
                   t_next_initial, query_counter, last_rect, rect, rect_calls,
                   initiated_at>>

(* evaluate_system, lines 219-220: one test of the catch-up loop. *)
CatchUp ==
    /\ epc = "catch_up"
    /\ IF t_next < clock
       THEN /\ t_next' = t_next + config.min_polling_interval
            /\ epc' = epc
       ELSE /\ t_next' = t_next
            /\ epc' = "check_break"
    /\ UNCHANGED <<bvars, rvars>>
    /\ UNCHANGED <<clock, config, rid_version, injected_flights, t_end,
                   t_next_initial, query_counter, last_rect, rect, rect_calls,
                   observer_index, initiated_at, observation,
                   query, emitted>>

(* A break that is also taken when t_next falls on t_end. *)
BreakCondition_Mutant(next, end) == next >= end

(* evaluate_system, lines 221-222. *)
BreakCondition(next, end) == next > end

(* evaluate_system, lines 221-226: break, or sleep until t_next and count  *)
(* the poll.  time.sleep returns no earlier than asked.                    *)
BreakOrSleep ==
    /\ epc = "check_break"
    /\ IF BreakCondition(t_next, t_end)
       THEN /\ epc' = "done"
            /\ UNCHANGED <<clock, query_counter>>
       ELSE /\ clock' = IF t_next - clock > 0 THEN t_next ELSE clock
            /\ query_counter' = query_counter + 1
            /\ epc' = "loop"
    /\ UNCHANGED <<bvars, rvars>>
    /\ UNCHANGED <<config, rid_version, injected_flights, t_end, t_next,
                   t_next_initial, last_rect, rect, rect_calls, observer_index, initiated_at, observation, query, emitted>>

EvalNext ==
    \/ Tick
    \/ ComputeEnd
    \/ CheckExpired
    \/ SetNext
    \/ LoopTest
    \/ ChooseRect
    \/ ObserveRequest
    \/ ObserveResponse
    \/ NextObserver
    \/ CatchUp
    \/ BreakOrSleep

SpecEval == EvalInit /\ [][EvalNext]_vars

----------------------------------------------------------------------------
(* Claims about RIDObservationEvaluator *)

(* An observation has just been evaluated. *)
Evaluated == epc = "evaluated"

NormallyEvaluated == Evaluated /\ Routing(rect[1], rid_version) = "normal"

TInitiated == query[1].request.timestamp
TResponse == query[1].response.reported

TMin(i) ==
    SeqMin([j \in 1..Len(injected_flights[i].flight.telemetry) |->
               injected_flights[i].flight.telemetry[j].timestamp])
TMax(i) ==
    SeqMax([j \in 1..Len(injected_flights[i].flight.telemetry) |->
               injected_flights[i].flight.telemetry[j].timestamp])

(* The last instant at which expected flight i may still be displayed. *)
TLast(i) ==
    TMax(i) + rid_version.realtime_period + config.max_propagation_latency

(* The number of observed flights carrying the id of expected flight i. *)
Matches(i) ==
    Cardinality({j \in DOMAIN observation[1].flights :
                    observation[1].flights[j].id =
                        injected_flights[i].flight.details_responses[1].details.id})

(* The findings of a kind emitted for expected flight i. *)
EmittedFor(kind, i) ==
    {j \in DOMAIN emitted :
        /\ emitted[j].kind = kind
        /\ emitted[j].uss = injected_flights[i].uss.name}

(* C2: in a normally evaluated observation, missing_flight is emitted for  *)
(* an expected flight if and only if no observed flight has its id,        *)
(* t_min <= t_response <= t_max + realtime_period + latency, and           *)
(* t_min + latency < t_initiated < t_max + realtime_period.                *)
C2_MissingIffMustBeVisible ==
    (NormallyEvaluated /\ observation # <<>>) =>
        \A i \in DOMAIN injected_flights :
            (EmittedFor("missing_flight", i) # {})
              <=> /\ Matches(i) = 0
                  /\ TMin(i) <= TResponse
                  /\ TResponse <= TLast(i)
                  /\ TMin(i) + config.max_propagation_latency < TInitiated
                  /\ TInitiated < TMax(i) + rid_version.realtime_period

C2_Witness ==
    /\ NormallyEvaluated
    /\ observation # <<>>
    /\ \E i \in DOMAIN injected_flights :
          /\ EmittedFor("missing_flight", i) # {}
          /\ TInitiated = TMin(i) + config.max_propagation_latency + 1

(* C3: in a normally evaluated observation, for an expected flight that is *)
(* observed, premature_flight is emitted if and only if t_response < t_min *)
(* (reporting t_min and t_response), lingering_flight if and only if       *)
(* t_response > t_max + realtime_period + latency (reporting t_max and     *)
(* t_initiated); without an observed match neither is emitted.             *)
C3_PrematureAndLingering ==
    (NormallyEvaluated /\ observation # <<>>) =>
        \A i \in DOMAIN injected_flights :
            /\ (EmittedFor("premature_flight", i) # {})
                 <=> (Matches(i) > 0 /\ TResponse < TMin(i))
            /\ \A j \in EmittedFor("premature_flight", i) :
                 emitted[j].args = <<TMin(i), TResponse>>
            /\ (EmittedFor("lingering_flight", i) # {})
                 <=> (Matches(i) > 0 /\ TResponse > TLast(i))
            /\ \A j \in EmittedFor("lingering_flight", i) :
                 emitted[j].args = <<TMax(i), TInitiated>>

C3_Witness ==
    /\ NormallyEvaluated
    /\ observation # <<>>
    /\ \E i \in DOMAIN injected_flights :
          /\ EmittedFor("lingering_flight", i) # {}
          /\ TResponse = TLast(i) + 1

(* C4: for every observer, expected flight and observation, at most one of *)
(* premature_flight, lingering_flight and missing_flight is emitted, and   *)
(* the conditions are tried in that order: a response before t_min leaves  *)
(* only premature possible, a response after the display window only       *)
(* lingering.                                                              *)
C4_AtMostOneVisibilityFinding ==
    (Evaluated /\ observation # <<>>) =>
        \A i \in DOMAIN injected_flights :
            /\ Cardinality(EmittedFor("premature_flight", i)
                           \cup EmittedFor("lingering_flight", i)
                           \cup EmittedFor("missing_flight", i)) <= 1
            /\ TResponse < TMin(i) =>
                  /\ EmittedFor("lingering_flight", i) = {}
                  /\ EmittedFor("missing_flight", i) = {}
            /\ TResponse > TLast(i) =>
                  /\ EmittedFor("premature_flight", i) = {}
                  /\ EmittedFor("missing_flight", i) = {}

C4_Witness ==
    /\ NormallyEvaluated
    /\ observation # <<>>
    /\ \E i \in DOMAIN injected_flights :
          /\ TResponse > TLast(i)
          /\ Matches(i) = 0
          /\ TMin(i) + config.max_propagation_latency < TInitiated
          /\ TInitiated < TMax(i) + rid_version.realtime_period
          /\ EmittedFor("missing_flight", i) = {}

(* The latest timestamp of the injected telemetry. *)
LatestTelemetry ==
    LET all == AllTelemetry(injected_flights)
    IN  SeqMax([j \in 1..Len(all) |-> all[j].timestamp])

(* The wall clock read by line 177 lay past the end of the injected data   *)
(* and its display window: t_end was then computed from that clock value.  *)
DataEndedBeforeStart ==
    /\ epc \notin {"start", "none"}
    /\ LatestTelemetry + rid_version.realtime_period + config.max_propagation_latency
         < t_end - rid_version.realtime_period - config.max_propagation_latency

(* C7: when the injected telemetry plus realtime_period plus latency ends  *)
(* before the wall clock at the start of evaluate_system, evaluate_system  *)
(* fails with TestDataExpired and performs no observation.                 *)
C7_ExpiredDataFails ==
    (DataEndedBeforeStart /\ epc # "check") => epc = "expired"

Polling == epc \in {"choose_rect", "observe", "awaiting_response", "evaluated"}

(* C8: t_next never decreases and stays the initial value plus a           *)
(* non-negative multiple of min_polling_interval; no poll is performed     *)
(* with t_next past t_end (a catch-up beyond t_end breaks the loop with no *)
(* sleep and no further poll), and no poll starts at a clock >= t_end.     *)
C8_ScheduleWithinEnd ==
    /\ [](epc \notin {"start", "check", "set_t_next"} =>
            /\ t_next >= t_next_initial
            /\ (t_next - t_next_initial) % config.min_polling_interval = 0)
    /\ [](Polling => t_next <= t_end)
    /\ [][ /\ t_next' >= t_next
           /\ (epc = "loop" /\ epc' = "choose_rect") => clock < t_end
           /\ (epc = "check_break" /\ t_next > t_end /\ epc' # epc) =>
                 (epc' = "done" /\ clock' = clock)
           /\ epc = "done" => epc' = "done" ]_vars

C8_Witness ==
    /\ epc = "done"
    /\ t_next > t_end
    /\ t_next >= t_next_initial + 2 * config.min_polling_interval
    /\ clock < t_end

(* C9: the first poll computes a fresh rectangle; a later poll with        *)
(* query_counter = c reuses the rectangle of the preceding poll if and     *)
(* only if repeat_query_rect_period > 0 and c mod period = 0, and computes *)
(* a fresh one at the current time otherwise; query_counter grows by one   *)
(* per completed poll and by nothing else.                                 *)
C9_RectangleChoice ==
    /\ [](epc = "choose_rect" => ((query_counter = 0) <=> (last_rect = <<>>)))
    /\ [][ /\ (epc = "choose_rect" /\ epc' = "observe") =>
                IF /\ query_counter > 0
                   /\ config.repeat_query_rect_period > 0
                   /\ query_counter % config.repeat_query_rect_period = 0
                THEN rect' = rect /\ rect_calls' = rect_calls
                ELSE /\ rect' = << GetQueryRect(clock, injected_flights,
                                                config, rid_version) >>
                     /\ rect_calls' = rect_calls + 1
           /\ (epc = "check_break" /\ epc' = "loop") =>
                query_counter' = query_counter + 1
           /\ ~(epc = "check_break" /\ epc' = "loop") =>
                (query_counter' = query_counter \/ epc = "check") ]_vars

C9_Witness ==
    /\ epc = "observe"
    /\ config.repeat_query_rect_period = 2
    /\ query_counter = 2
    /\ rect_calls = 2

(* The exchange at hand yielded no observation: a status other than 200,   *)
(* or a body that does not parse.                                          *)
NoObservationYielded ==
    /\ Evaluated
    /\ (query[1].status_code # 200 \/ ~query[1].response.parses)

OnlyObservationFailure ==
    emitted = << Finding("observation_query", query[1].observer, "", "", <<query[1]>>),
                 Finding("observation_failure", query[1].observer, "", "", <<rect[1]>>) >>

(* C10 as stated: whenever observe_system yields no observation, an        *)
(* observation_failure is recorded for that observer and no per-flight     *)
(* finding is emitted.                                                     *)
C10_FailureAlwaysRecorded ==
    NoObservationYielded => OnlyObservationFailure

(* C10 as amended: whenever observe_system yields no observation for a     *)
(* rectangle whose diagonal is at most max_details_diagonal_km, exactly an *)
(* observation_failure is recorded for that observer, and evaluation goes  *)
(* on with the next observer or, after the last, with the scheduling of    *)
(* the next poll.                                                          *)
C10_FailureRecordedWhenNormal ==
    /\ []((NoObservationYielded /\ NormallyEvaluated) => OnlyObservationFailure)
    /\ [][ (NoObservationYielded /\ epc' # epc) =>
              /\ observer_index' = observer_index + 1
              /\ epc' = IF observer_index < Len(Observers)
                        THEN "observe" ELSE "catch_up" ]_vars

C10_Witness ==
    /\ NoObservationYielded
    /\ NormallyEvaluated
    /\ query[1].status_code = 200
    /\ observer_index = 1
    /\ query_counter = 1

(* The kinds of the findings emitted for the observation at hand, the      *)
(* registration of its Query aside.                                        *)
EmittedKinds ==
    {emitted[j].kind : j \in DOMAIN emitted} \ {"observation_query"}

(* C11: an observation whose rectangle's diagonal exceeds max_diagonal_km  *)
(* can only yield area_too_large_not_indicated, and yields it if and only  *)
(* if the observer's status is not 413; a diagonal in the cluster range    *)
(* (above max_details_diagonal_km, at most max_diagonal_km) yields no      *)
(* finding; premature, lingering, missing, duplicate and                   *)
(* observation_failure findings are emitted only for a diagonal of at most *)
(* max_details_diagonal_km.                                                *)
C11_RoutingByDiagonal ==
    Evaluated =>
        LET arc == RectArc(rect[1])
            too_large ==
                arc * EARTH_CIRCUMFERENCE_KM > rid_version.max_diagonal_m * 360000
            no_details ==
                arc * EARTH_CIRCUMFERENCE_KM > rid_version.max_details_diagonal_m * 360000
        IN  /\ too_large =>
                 /\ EmittedKinds \subseteq {"area_too_large_not_indicated"}
                 /\ ("area_too_large_not_indicated" \in EmittedKinds)
                      <=> (query[1].status_code # 413)
            /\ (no_details /\ ~too_large) => EmittedKinds = {}
            /\ (EmittedKinds \cap {"premature_flight", "lingering_flight",
                                   "missing_flight", "duplicate_flights",
                                   "observation_failure"} # {}) => ~no_details

C11_Witness ==
    /\ Evaluated
    /\ Routing(rect[1], rid_version) = "area_too_large"
    /\ query[1].status_code = 200
    /\ observation # <<>>
    /\ Len(observation[1].flights) = 2
    /\ EmittedKinds = {"area_too_large_not_indicated"}

----------------------------------------------------------------------------
(* Further claims about TestBuilder *)

(* The test ids of a returned list of payloads. *)
TestIds(payloads) ==
    {payloads[k].injection_payload.test_id : k \in DOMAIN payloads}

(* The injection ids of the flights a returned list of payloads refers to. *)
InjectionIds(payloads) ==
    UNION {{RequestedFlights(payloads[k].injection_payload)[j].injection_id :
               j \in DOMAIN RequestedFlights(payloads[k].injection_payload)} :
           k \in DOMAIN payloads}

(* C12: build_test_payloads returns one DeliverablePayload per configured  *)
(* USS, the k-th for the k-th USS; no two payloads share a test_id, no two *)
(* flights an injection_id, no injection_id is a test_id (N USSes give 2N  *)
(* identifiers), and each injection_path is "/tests/" followed by the      *)
(* payload's own test_id.                                                  *)
C12_OnePayloadPerUssFreshIds ==
    bpc = "built" =>
        LET n == Len(test_configuration.usses)
        IN  /\ Len(Submitted) = n
            /\ \A k \in 1..n :
                 LET p == Submitted[k]
                     own == RequestedFlights(p.injection_payload)[k]
                 IN  /\ own.telemetry = k
                     /\ own.details_responses[1].details.id =
                          TrackFiles[test_configuration.usses[k].allocated_flight_track_number].id
                     /\ p.injection_path = <<"/tests/", p.injection_payload.test_id>>
                     /\ \A l \in 1..n :
                          (l # k) =>
                            /\ Submitted[l].injection_payload.test_id
                                 # p.injection_payload.test_id
                            /\ RequestedFlights(Submitted[l].injection_payload)[l].injection_id
                                 # own.injection_id
            /\ Cardinality(TestIds(Submitted)) = n
            /\ Cardinality(InjectionIds(Submitted)) = n
            /\ TestIds(Submitted) \cap InjectionIds(Submitted) = {}
            /\ Cardinality(TestIds(Submitted) \cup InjectionIds(Submitted)) = 2 * n

C12_Witness ==
    /\ bpc = "built"
    /\ Len(Submitted) = 3
    /\ Len(returned) = 2
    /\ Cardinality(TestIds(Submitted) \cup InjectionIds(Submitted)) = 6

(* What a DeliverablePayload holds, read through the list object ls it     *)
(* points to and the loaded records data its flights' telemetry points to. *)
PayloadContents(payload, ls, data) ==
    LET flights == ls[payload.injection_payload.requested_flights]
    IN  [test_id |-> payload.injection_payload.test_id,
         injection_path |-> payload.injection_path,
         requested_flights |->
            [j \in 1..Len(flights) |->
                [injection_id |-> flights[j].injection_id,
                 telemetry |-> data[flights[j].telemetry].states,
                 details_responses |-> flights[j].details_responses]]]

(* C13: once build_test_payloads has constructed a DeliverablePayload, no  *)
(* step changes its test_id, its injection_path or the contents of its     *)
(* requested_flights (the flights and their telemetry timestamps): not the *)
(* construction of the payloads of later USSes, not a later call of        *)
(* build_test_payloads or submit_payloads.                                 *)
C13_PayloadNeverMutated ==
    [][ /\ \A k \in DOMAIN all_test_payloads :
             PayloadContents(all_test_payloads[k], lists', disk_rid_state_data')
               = PayloadContents(all_test_payloads[k], lists, disk_rid_state_data)
        /\ \A r \in DOMAIN returned :
             \A k \in DOMAIN returned[r] :
               PayloadContents(returned[r][k], lists', disk_rid_state_data')
                 = PayloadContents(returned[r][k], lists, disk_rid_state_data)
      ]_vars

(* The timestamps a rewrite of the record loaded for USS k gives for the   *)
(* configured test_start_time.                                             *)
RewrittenFromDisk(k) ==
    LET on_disk == TrackFiles[test_configuration.usses[k].allocated_flight_track_number]
    IN  [j \in 1..Len(on_disk.states) |->
            on_disk.states[j]
              + (test_configuration.test_start_time + 1 - on_disk.reference_time)]

(* C14: build_test_payloads rewrites a private copy: the loaded records    *)
(* (TestBuilder.disk_rid_state_data) keep the reference_time and the       *)
(* telemetry timestamps they were loaded with, and every call returns the  *)
(* same rewritten telemetry timestamps, those of the records as loaded.    *)
C14_LoadedRecordsUnchanged ==
    /\ bpc # "none" =>
          disk_rid_state_data = TestBuilderInit(test_configuration)
    /\ bpc = "built" =>
          \A k \in DOMAIN Submitted :
              Telemetry(RequestedFlights(Submitted[k].injection_payload)[k])
                = RewrittenFromDisk(k)

(* C15: the rewrite of a record by build_test_payloads adds                *)
(* test_start_time + 1 minute - reference_time, with the reference_time    *)
(* the record carries when it is read, to every telemetry timestamp (so    *)
(* the spacing of the samples is kept and a sample at reference_time lands *)
(* on test_start_time + 1 minute), sets the record's reference_time to     *)
(* test_reference_time (the configured now), and gives the flight's        *)
(* details an effective_after of test_start_time + 1 minute; a record      *)
(* fresh from disk is thereby rewritten from its on-disk values.           *)
C15_TimelineRewrite ==
    /\ [][ (bpc = "building" /\ state_data_index' = state_data_index + 1) =>
             LET k == state_data_index
                 old == disk_rid_state_data[k]
                 new == disk_rid_state_data'[k]
                 start == test_configuration.test_start_time
                 flights == lists'[Len(lists')]
             IN  /\ Len(new.states) = Len(old.states)
                 /\ \A j \in DOMAIN old.states :
                      new.states[j] = old.states[j] + (start + 1 - old.reference_time)
                 /\ \A i, j \in DOMAIN old.states :
                      new.states[j] - new.states[i] = old.states[j] - old.states[i]
                 /\ \A j \in DOMAIN old.states :
                      old.states[j] = old.reference_time => new.states[j] = start + 1
                 /\ new.reference_time = test_configuration.now
                 /\ flights[Len(flights)].telemetry = k
                 /\ flights[Len(flights)].details_responses[1].effective_after
                      = start + 1 ]_vars
    /\ []((bpc = "built" /\ Len(returned) = 1) =>
             \A k \in DOMAIN disk_rid_state_data :
                 disk_rid_state_data[k].states = RewrittenFromDisk(k))

C15_Witness ==
    /\ bpc = "building"
    /\ state_data_index = 2
    /\ Len(returned) = 0
    /\ test_configuration.test_start_time = 103
    /\ disk_rid_state_data[1].reference_time = 100
    /\ disk_rid_state_data[1].states = <<104, 105, 107>>

----------------------------------------------------------------------------
(* RIDObservationEvaluator._get_query_rect, statement by statement         *)
(*                                                                         *)
(* SpecRect follows one call of _get_query_rect(t) through its expansion   *)
(* loop.  The locals lat_min, lng_min, lat_max and lng_max are grid values *)
(* while the rectangle lies on the grid of positions above; `on_grid` is   *)
(* FALSE once they have left it.                                           *)

(* c1.get_distance(c2) is an angle of at most 180 degrees: no diagonal     *)
(* exceeds half of EARTH_CIRCUMFERENCE_KM (lines 133-136), in metres.      *)
MaxDistanceMetres == (EARTH_CIRCUMFERENCE_KM * 1000) \div 2

(* The configurations _get_query_rect is followed with: the last           *)
(* min_query_diagonal is 30 000 km.                                        *)
QueryRectConfigurations ==
    [min_polling_interval : {2},
     max_propagation_latency : {0, 1},
     min_query_diagonal : {5, 15, 30000000},
     repeat_query_rect_period : {0}]

Corners(lat_min, lng_min, lat_max, lng_max) ==
    [lat_min |-> lat_min, lng_min |-> lng_min,
     lat_max |-> lat_max, lng_max |-> lng_max, on_grid |-> TRUE]

OffGrid ==
    [lat_min |-> 0, lng_min |-> 0, lat_max |-> 0, lng_max |-> 0, on_grid |-> FALSE]

(* RIDObservationEvaluator.__init__ with a call _get_query_rect(t_now)     *)
(* about to start.                                                         *)
RectInit ==
    /\ BuilderNotConstructed
    /\ clock = 0
    /\ config \in QueryRectConfigurations
    /\ rid_version \in RIDVersions
    /\ injected_flights \in InjectedFlightLists
    /\ epc = "none"
    /\ t_end = 0
    /\ t_next = 0
    /\ t_next_initial = 0
    /\ query_counter = 0
    /\ last_rect = <<>>
    /\ rect = <<>>
    /\ rect_calls = 0
    /\ observer_index = 0
    /\ initiated_at = 0
    /\ observation = <<>>
    /\ query = <<>>
    /\ emitted = <<>>
    /\ t_now \in 0..MaxTime
    /\ corners = <<>>
    /\ rpc = "find_bounds"

(* _get_query_rect, lines 93-127: the bounds of the samples in the window, *)
(* or the mean position of all samples when the window holds none.         *)
RelevantBounds(t, flights, cfg, version) ==
    LET t_min == t - version.realtime_period - cfg.max_propagation_latency
        t_max == t
        all == AllTelemetry(flights)
        relevant == {j \in 1..Len(all) :
                        t_min <= all[j].timestamp /\ all[j].timestamp <= t_max}
        n == Len(all)
        lats == {all[j].position.lat : j \in relevant}
        lngs == {all[j].position.lng : j \in relevant}
    IN  IF relevant # {}
        THEN Corners(CHOOSE x \in lats : \A y \in lats : x <= y,
                     CHOOSE x \in lngs : \A y \in lngs : x <= y,
                     CHOOSE x \in lats : \A y \in lats : x >= y,
                     CHOOSE x \in lngs : \A y \in lngs : x >= y)
        ELSE LET lat == FloorDiv(SeqSum([j \in 1..n |-> all[j].position.lat]), n)
                 lng == FloorDiv(SeqSum([j \in 1..n |-> all[j].position.lng]), n)
             IN  Corners(lat, lng, lat, lng)

FindBounds ==
    /\ rpc = "find_bounds"
    /\ corners' = RelevantBounds(t_now, injected_flights, config, rid_version)
    /\ rpc' = "test"
    /\ UNCHANGED <<bvars, evars, t_now>>

(* c1.get_distance(c2), lines 130-132, for corners on the grid. *)
CornersArc(c) == GetDistance(c.lat_min, c.lng_min, c.lat_max, c.lng_max)

(* diagonal >= self._config.min_query_diagonal, lines 133-137: no diagonal *)
(* reaches a minimum beyond MaxDistanceMetres.                             *)
DiagonalReached(c, min_query_diagonal) ==
    /\ min_query_diagonal <= MaxDistanceMetres
    /\ DiagonalAtLeast(CornersArc(c), min_query_diagonal)

(* _get_query_rect, lines 130-138 and 164-166: leave the loop and return   *)
(* the rectangle of the corners, or go on to grow the rectangle.           *)
ExpandTest ==
    /\ rpc = "test"
    /\ rpc' = IF DiagonalReached(corners, config.min_query_diagonal)
              THEN "returned" ELSE "grow"
    /\ UNCHANGED <<bvars, evars, t_now, corners>>

(* _get_query_rect, lines 139-162: pad a point by 1e-5 degree, else scale  *)
(* both spans about the centre.  Scaling towards a minimum beyond          *)
(* MaxDistanceMetres takes the corners off the grid, where they stay.      *)
Grown(c, min_query_diagonal) ==
    IF ~c.on_grid THEN OffGrid
    ELSE IF c.lat_min = c.lat_max /\ c.lng_min = c.lng_max
    THEN Corners(c.lat_min - PadUnits, c.lng_min - PadUnits,
                 c.lat_max + PadUnits, c.lng_max + PadUnits)
    ELSE IF min_query_diagonal > MaxDistanceMetres THEN OffGrid
    ELSE LET arc == CornersArc(c)
             lat_span == ScaledSpan(c.lat_max - c.lat_min, min_query_diagonal, arc)
             lng_span == ScaledSpan(c.lng_max - c.lng_min, min_query_diagonal, arc)
         IN  Corners(FloorDiv(c.lat_min + c.lat_max - lat_span, 2),
                     FloorDiv(c.lng_min + c.lng_max - lng_span, 2),
                     CeilDiv(c.lat_min + c.lat_max + lat_span, 2),
                     CeilDiv(c.lng_min + c.lng_max + lng_span, 2))

ExpandGrow ==
    /\ rpc = "grow"
    /\ corners' = Grown(corners, config.min_query_diagonal)
    /\ rpc' = "test"
    /\ UNCHANGED <<bvars, evars, t_now>>

RectNext ==
    \/ FindBounds
    \/ ExpandTest
    \/ ExpandGrow

SpecRect == RectInit /\ [][RectNext]_vars

(* A running call executes its next statement. *)
SpecRectFair == SpecRect /\ WF_vars(RectNext)

----------------------------------------------------------------------------
(* Claims about _get_query_rect *)

(* No sample of the injected telemetry lies in the window that ends at     *)
(* t_now: the rectangle starts from the mean position.                     *)
WindowEmpty ==
    \A j \in DOMAIN AllTelemetry(injected_flights) :
        LET ts == AllTelemetry(injected_flights)[j].timestamp
        IN  ~ ( /\ t_now - rid_version.realtime_period
                     - config.max_propagation_latency <= ts
                /\ ts <= t_now )

(* C16: whenever _get_query_rect returns, the diagonal of the returned     *)
(* rectangle is at least min_query_diagonal, both when samples fall in the *)
(* window and when the rectangle starts from the mean point.               *)
C16_DiagonalAtLeastMinimum ==
    rpc = "returned" =>
        /\ corners.on_grid
        /\ corners.lat_min <= corners.lat_max
        /\ corners.lng_min <= corners.lng_max
        /\ GetDistance(corners.lat_min, corners.lng_min,
                       corners.lat_max, corners.lng_max) * EARTH_CIRCUMFERENCE_KM
             >= config.min_query_diagonal * 360000

C16_Witness ==
    /\ rpc = "returned"
    /\ WindowEmpty
    /\ config.min_query_diagonal = 15
    /\ corners.lat_min < corners.lat_max

(* C17: every call of _get_query_rect leaves its expansion loop: it        *)
(* returns a rectangle, or reports DegenerateGeometry when the diagonal    *)
(* cannot reach min_query_diagonal.                                        *)
C17_ExpansionHalts ==
    <>(rpc \in {"returned", "degenerate_geometry"})

----------------------------------------------------------------------------
(* Further claims about RIDObservationEvaluator *)

(* C18: in a normally evaluated observation, duplicate_flights is emitted  *)
(* for an expected flight if and only if more than one observed flight     *)
(* carries its id (that of details_responses[0]), once, reporting the      *)
(* number of matching observed flights, whatever t_initiated, t_response   *)
(* and the flight's telemetry times are.                                   *)
C18_DuplicatesIffSeveralMatches ==
    (NormallyEvaluated /\ observation # <<>>) =>
        \A i \in DOMAIN injected_flights :
            /\ (EmittedFor("duplicate_flights", i) # {}) <=> (Matches(i) > 1)
            /\ Cardinality(EmittedFor("duplicate_flights", i)) <= 1
            /\ \A j \in EmittedFor("duplicate_flights", i) :
                 /\ emitted[j].args = <<Matches(i)>>
                 /\ emitted[j].flight_id =
                      injected_flights[i].flight.details_responses[1].details.id
                 /\ emitted[j].observer = query[1].observer

C18_Witness ==
    /\ NormallyEvaluated
    /\ observation # <<>>
    /\ \E i \in DOMAIN injected_flights :
          /\ Matches(i) = 2
          /\ TResponse < TMin(i)
          /\ EmittedFor("duplicate_flights", i) # {}
          /\ EmittedFor("premature_flight", i) # {}

(* C19: within a poll the observers are queried one after the other in     *)
(* configuration order, each exactly once and all with the rectangle the   *)
(* poll chose; the Query of an observation is registered exactly once,     *)
(* before every finding derived from that observation and before the next  *)
(* observer is queried, so the findings of a poll come in observer order   *)
(* and those of a later poll after those of an earlier one.                *)
C19_ObserversInOrder ==
    /\ [](epc \in {"observe", "awaiting_response", "evaluated"} =>
            observer_index \in 1..Len(Observers))
    /\ [](Evaluated =>
            /\ emitted[1] = Finding("observation_query", Observers[observer_index],
                                    "", "", <<query[1]>>)
            /\ \A j \in 2..Len(emitted) :
                 /\ emitted[j].kind # "observation_query"
                 /\ emitted[j].observer = Observers[observer_index])
    /\ [](epc \in {"observe", "awaiting_response"} => emitted = <<>>)
    /\ [][ /\ (epc = "choose_rect" /\ epc' # epc) =>
                (epc' = "observe" /\ observer_index' = 1)
           /\ (epc = "observe" /\ epc' # epc) =>
                (epc' = "awaiting_response" /\ observer_index' = observer_index)
           /\ (epc = "awaiting_response" /\ epc' # epc) =>
                /\ epc' = "evaluated"
                /\ observer_index' = observer_index
                /\ query'[1].observer = Observers[observer_index]
           /\ (epc = "evaluated" /\ epc' # epc) =>
                /\ observer_index' = observer_index + 1
                /\ epc' = IF observer_index < Len(Observers)
                          THEN "observe" ELSE "catch_up"
           /\ epc \in {"observe", "awaiting_response", "evaluated"} =>
                rect' = rect
           /\ epc \notin {"choose_rect", "evaluated"} =>
                observer_index' = observer_index ]_vars

C19_Witness ==
    /\ Evaluated
    /\ observer_index = 2
    /\ query_counter = 1
    /\ Len(emitted) >= 2
    /\ emitted[2].observer = "dp2"

(* C20: the start times of two consecutive polls of evaluate_system (the   *)
(* t_now read at line 202) are at least min_polling_interval apart,        *)
(* whatever time the observations and the sleeps take.                     *)
C20_PollsAtLeastIntervalApart ==
    [][ (epc = "choose_rect" /\ epc' = "observe" /\ query_counter > 0) =>
            t_now' - t_now >= config.min_polling_interval ]_vars

(* Rectangle r contains the position of every injected telemetry sample    *)
(* whose timestamp lies in [t - realtime_period - max_propagation_latency, *)
(* t].                                                                     *)
ContainsWindowSamples(r, t) ==
    \A i \in DOMAIN injected_flights :
        \A j \in DOMAIN injected_flights[i].flight.telemetry :
            LET s == injected_flights[i].flight.telemetry[j]
            IN  ( /\ t - rid_version.realtime_period
                       - config.max_propagation_latency <= s.timestamp
                  /\ s.timestamp <= t )
                => /\ r.lat_lo <= s.position.lat /\ s.position.lat <= r.lat_hi
                   /\ r.lng_lo <= s.position.lng /\ s.position.lng <= r.lng_hi

(* Observers are being queried in a poll that started at t_now. *)
Observing == epc \in {"observe", "awaiting_response", "evaluated"}

(* The poll at hand computed its rectangle afresh (lines 203-213). *)
FreshRectangle ==
    \/ query_counter = 0
    \/ config.repeat_query_rect_period = 0
    \/ query_counter % config.repeat_query_rect_period # 0

(* C22 as stated: in every poll at time t, with a fresh or a reused        *)
(* rectangle, the rectangle sent to the observers contains the position of *)
(* every injected sample whose timestamp lies in the window ending at t.   *)
C22_RectangleContainsWindow ==
    Observing => ContainsWindowSamples(rect[1], t_now)

(* C22 as amended: in every poll at time t that computes a fresh           *)
(* rectangle, the rectangle sent to the observers contains the position of *)
(* every injected sample whose timestamp lies in the window ending at t.   *)
C22_FreshRectangleContainsWindow ==
    (Observing /\ FreshRectangle) => ContainsWindowSamples(rect[1], t_now)

C22_Witness ==
    /\ Observing
    /\ FreshRectangle
    /\ query_counter = 1
    /\ t_now = 3
    /\ injected_flights = <<FlightA, FlightB>>
    /\ config.max_propagation_latency = 1
    /\ config.min_query_diagonal = 15
    /\ ContainsWindowSamples(rect[1], t_now)

(* evaluate_system has ended: it has returned or raised. *)
Ended == epc \in {"done", "expired"}

====
